---- MODULE Spec2Model ----
(***************************************************************************)
(* The Moostaka router (src/src/moostaka.js): the route list, the          *)
(* configured default route, the history entries pushed by the router and  *)
(* what one navigate call did.                                             *)
(*                                                                         *)
(* A JavaScript string is a sequence of one-character strings, so that     *)
(* split, substring, toLowerCase and match are computed, not assumed.      *)
(***************************************************************************)
EXTENDS Naturals, Sequences, FiniteSets

VARIABLES
    routes,         \* this.routes: sequence of [pattern, handler]
    defaultRoute,   \* this.defaultRoute
    history,        \* the urls handed to history.pushState, in order
    lastOp,         \* "constructor", "route" or "navigate": the last call made
    argument,       \* the argument of the last navigate call
    pathname,       \* navigate's pathname after the default substitution
    calls,          \* handler invocations of the last navigate call
    evaluated,      \* route indices (0-based) the last navigate call looked at
    pushed,         \* urls the last navigate call handed to pushState
    threw           \* whether the last navigate call raised an error

vars == <<routes, defaultRoute, history, lastOp, argument, pathname,
          calls, evaluated, pushed, threw>>

----------------------------------------------------------------------------
\* Bounds of the model

MaxRoutes == 2
MaxHistory == 2

----------------------------------------------------------------------------
\* JavaScript values

\* undefined: a missing argument, or an array read past the end
Undefined == <<"undefined">>
\* the result of calling a method on undefined
TypeError == <<"TypeError">>

\* !value for a string or undefined
Falsy(value) == value = Undefined \/ value = <<>>

\* toLowerCase of one character, over the letters the model uses
LowerChar(c) ==
    CASE c = "U" -> "u"
      [] OTHER -> c

\* value.toLowerCase()
ToLowerCase(value) ==
    IF value = Undefined THEN TypeError
    ELSE [k \in 1..Len(value) |-> LowerChar(value[k])]

\* str.substring(from, to): the characters at the 0-based indices from..to-1,
\* both ends clipped to the string
Substring(str, from, to) ==
    LET hi == IF to < Len(str) THEN to ELSE Len(str)
        lo == IF from < hi THEN from ELSE hi
    IN  [k \in 1..(hi - lo) |-> str[lo + k]]

\* str.substring(from)
SubstringFrom(str, from) == Substring(str, from, Len(str))

\* str.substring(0, 1)
FirstChar(str) == Substring(str, 0, 1)

\* str.split('/'): always at least one part
RECURSIVE Split(_)
Split(str) ==
    IF str = <<>> THEN << <<>> >>
    ELSE LET rest == Split(Tail(str))
         IN  IF Head(str) = "/" THEN << <<>> >> \o rest
             ELSE << <<Head(str)>> \o Head(rest) >> \o Tail(rest)

\* array[x] with a 0-based index: undefined past the end
At(array, x) == IF x < Len(array) THEN array[x + 1] ELSE Undefined

\* str.match(regexp) is truthy. The regular expressions of the model are a
\* literal text with an optional leading ^ and an optional trailing $.
Matches(str, regexp) ==
    LET atStart == regexp # <<>> /\ Head(regexp) = "^"
        r1      == IF atStart THEN Tail(regexp) ELSE regexp
        atEnd   == r1 # <<>> /\ r1[Len(r1)] = "$"
        lit     == IF atEnd THEN Substring(r1, 0, Len(r1) - 1) ELSE r1
    IN  \E k \in 0..Len(str) :
            /\ k + Len(lit) <= Len(str)
            /\ Substring(str, k, k + Len(lit)) = lit
            /\ atStart => k = 0
            /\ atEnd => k + Len(lit) = Len(str)

----------------------------------------------------------------------------
\* lowerCase and the matching of one route

\* the guard dropped: toLowerCase is called on whatever comes
lowerCaseUnguarded(value) == ToLowerCase(value)

\* the case folding dropped
lowerCaseIdentity(value) == value

lowerCase(value) ==
    IF ~Falsy(value) THEN ToLowerCase(value) ELSE value

\* the wildcard treated as any other literal segment
IsWildcardNever(part) == FALSE

\* routeParts[x] === '*'
IsWildcard(part) == part = <<"*">>

\* the strict length check dropped
StrictLengthOff(routeParts, hashParts, thisRouteMatch) == thisRouteMatch

\* if(routeParts.length !== hashParts.length) thisRouteMatch = false
StrictLength(routeParts, hashParts, thisRouteMatch) ==
    IF Len(routeParts) # Len(hashParts) THEN FALSE ELSE thisRouteMatch

\* routeParts[x].substring(0, 1) !== ':' is false: a parameter segment
IsParam(part) == FirstChar(part) = <<":">>

\* partName = routeParts[x].substring(1)
PartName(part) == SubstringFrom(part, 1)

\* params[partName] = value, params being a set of <<name, value>> pairs
SetParam(params, partName, value) ==
    {kv \in params : kv[1] # partName} \cup {<<partName, value>>}

\* the for loop over routeParts, from index x on; st is the loop's state
\* [thisRouteMatch, params, threw]
RECURSIVE SegmentLoop(_, _, _, _)
SegmentLoop(routeParts, hashParts, x, st) ==
    IF x >= Len(routeParts) THEN st
    ELSE IF IsWildcard(At(routeParts, x)) THEN st
    ELSE
      LET flag == StrictLength(routeParts, hashParts, st.thisRouteMatch)
          part == At(routeParts, x)
          seg  == At(hashParts, x)
      IN  IF ~IsParam(part)
          THEN LET a == lowerCase(part)
                   b == lowerCase(seg)
               IN  IF a = TypeError \/ b = TypeError
                   THEN [st EXCEPT !.thisRouteMatch = flag, !.threw = TRUE]
                   ELSE SegmentLoop(routeParts, hashParts, x + 1,
                            [st EXCEPT !.thisRouteMatch =
                                           IF a # b THEN FALSE ELSE flag])
          ELSE SegmentLoop(routeParts, hashParts, x + 1,
                   [st EXCEPT !.thisRouteMatch = flag,
                              !.params = SetParam(@, PartName(part), seg)])

\* the regular expression tested against the whole pathname
RegExpSubjectWhole(path) == path

\* pathname.substring(1)
RegExpSubject(path) == SubstringFrom(path, 1)

\* the arguments object a handler gets: the params of a string pattern, or
\* {'hash': [...]} of a regular expression
ParamsArg(params) == [isHash |-> FALSE, params |-> params, hash |-> <<>>]
HashArg(path) ==
    [isHash |-> TRUE, params |-> {}, hash |-> Split(RegExpSubject(path))]

\* One iteration of the loop over this.routes, for route i and the params
\* object it starts with: [accepted, arg, threw]
EvalRoute(route, path, params0) ==
    IF route.pattern.type = "string"
    THEN LET st == SegmentLoop(Split(route.pattern.value), Split(path), 0,
                       [thisRouteMatch |-> TRUE, params |-> params0,
                        threw |-> FALSE])
         IN  [accepted |-> ~st.threw /\ st.thisRouteMatch = TRUE,
              arg |-> ParamsArg(st.params), params |-> st.params,
              threw |-> st.threw, setsRouteMatch |-> TRUE]
    ELSE [accepted |-> Matches(RegExpSubject(path), route.pattern.value),
          arg |-> HashArg(path), params |-> params0,
          threw |-> FALSE, setsRouteMatch |-> FALSE]

Call(i, route, arg) == [route |-> i, handler |-> route.handler, arg |-> arg]

NoMatch ==
    [calls |-> <<>>, evaluated |-> <<>>, routeMatch |-> FALSE,
     returned |-> FALSE, threw |-> FALSE]

\* the loop goes on after a handler ran
RECURSIVE RouteLoopNoReturn(_, _, _)
RouteLoopNoReturn(rs, path, i) ==
    IF i >= Len(rs) THEN NoMatch
    ELSE LET e    == EvalRoute(rs[i + 1], path, {})
             rest == RouteLoopNoReturn(rs, path, i + 1)
         IN  IF e.threw
             THEN [NoMatch EXCEPT !.evaluated = <<i>>, !.threw = TRUE]
             ELSE [rest EXCEPT
                     !.evaluated = <<i>> \o @,
                     !.calls = IF e.accepted
                               THEN <<Call(i, rs[i + 1], e.arg)>> \o @ ELSE @,
                     !.routeMatch = @ \/ (e.accepted /\ e.setsRouteMatch)]

\* params declared once, before the loop over the routes
RECURSIVE RouteLoopCarry(_, _, _, _)
RouteLoopCarry(rs, path, i, params0) ==
    IF i >= Len(rs) THEN NoMatch
    ELSE LET e == EvalRoute(rs[i + 1], path, params0)
         IN  IF e.threw
             THEN [NoMatch EXCEPT !.evaluated = <<i>>, !.threw = TRUE]
             ELSE IF e.accepted
             THEN [NoMatch EXCEPT !.evaluated = <<i>>,
                                  !.calls = <<Call(i, rs[i + 1], e.arg)>>,
                                  !.routeMatch = e.setsRouteMatch,
                                  !.returned = TRUE]
             ELSE LET rest == RouteLoopCarry(rs, path, i + 1, e.params)
                  IN  [rest EXCEPT !.evaluated = <<i>> \o @]

RouteLoopSharedParams(rs, path, i) == RouteLoopCarry(rs, path, i, {})

\* the for loop over this.routes, from index i on:
\* [calls, evaluated, routeMatch, returned, threw]
RECURSIVE RouteLoop(_, _, _)
RouteLoop(rs, path, i) ==
    IF i >= Len(rs) THEN NoMatch
    ELSE LET e == EvalRoute(rs[i + 1], path, {})
         IN  IF e.threw
             THEN [NoMatch EXCEPT !.evaluated = <<i>>, !.threw = TRUE]
             ELSE IF e.accepted
             THEN [NoMatch EXCEPT !.evaluated = <<i>>,
                                  !.calls = <<Call(i, rs[i + 1], e.arg)>>,
                                  !.routeMatch = e.setsRouteMatch,
                                  !.returned = TRUE]
             ELSE LET rest == RouteLoop(rs, path, i + 1)
                  IN  [rest EXCEPT !.evaluated = <<i>> \o @]

\* only the missing path is replaced by the default route
DefaultPathnameFalsyOnly(path, default) ==
    IF Falsy(path) THEN default ELSE path

\* if(!pathname || pathname === '/') pathname = this.defaultRoute
DefaultPathname(path, default) ==
    IF Falsy(path) \/ path = <<"/">> THEN default ELSE path

\* the redirect made whatever the loop did
RedirectAlways(res, default) ==
    IF res.threw THEN <<>> ELSE <<default>>

\* if(routeMatch === false) history.pushState('data', 'home', defaultRoute),
\* reached only when the loop neither returned nor threw
Redirect(res, default) ==
    IF ~res.threw /\ ~res.returned /\ res.routeMatch = FALSE
    THEN <<default>> ELSE <<>>

----------------------------------------------------------------------------
\* The inputs of the model

Root      == <<"/">>
PUserId   == <<"/", "u", "/", ":", "i">>          \* /u/:i
PUserAny  == <<"/", "u", "/", "*">>               \* /u/*
PAny      == <<"*">>                              \* *
PTwice    == <<"/", ":", "i", "/", ":", "i">>     \* /:i/:i
PMidStar  == <<"/", "u", "/", "*", "/", "x">>     \* /u/*/x
PNameE    == <<"/", ":", "n", "/", "e">>          \* /:n/e
RStartsU  == <<"^", "u">>                         \* /^u/

StringPattern(value) == [type |-> "string", value |-> value]
RegExpPattern(value) == [type |-> "object", value |-> value]

\* the (pattern, handler) pairs route() is called with
RouteInputs ==
    { [pattern |-> StringPattern(PUserId),  handler |-> "H1"],
      [pattern |-> StringPattern(PUserAny), handler |-> "H2"],
      [pattern |-> StringPattern(PAny),     handler |-> "H3"],
      [pattern |-> StringPattern(PTwice),   handler |-> "H2"],
      [pattern |-> StringPattern(PMidStar), handler |-> "H3"],
      [pattern |-> StringPattern(PNameE),   handler |-> "H3"],
      [pattern |-> RegExpPattern(RStartsU), handler |-> "H1"] }

\* the paths navigate() is called with
Paths ==
    { Undefined, <<>>, Root,
      <<"/", "u", "/", "4">>,                     \* /u/4
      <<"/", "U", "/", "4">>,                     \* /U/4
      <<"/", "u", "/", "4", "/", "e">>,           \* /u/4/e
      <<"/", "4", "/", "e">>,                     \* /4/e
      <<"/", "u", "/">>,                          \* /u/ : an empty last segment
      <<"u", "4">> }                              \* u4: no leading /

\* opts.defaultRoute, '/' when not given
DefaultRoutes == { Root, <<"/", "u", "/", "4">> }

\* location.pathname when the router is constructed: a browser's is never ''
InitialLocations == { Root }

----------------------------------------------------------------------------
\* The router

\* constructor(opts)
Init ==
    /\ routes = <<>>
    /\ \E loc \in InitialLocations :
           history = IF loc = <<>> THEN <<Root>> ELSE <<>>
    /\ defaultRoute \in DefaultRoutes
    /\ lastOp = "constructor"
    /\ argument = Undefined
    /\ pathname = Undefined
    /\ calls = <<>>
    /\ evaluated = <<>>
    /\ pushed = <<>>
    /\ threw = FALSE

\* route(pattern, handler)
Route(pattern, handler) ==
    /\ Len(routes) < MaxRoutes
    /\ routes' = Append(routes, [pattern |-> pattern, handler |-> handler])
    /\ lastOp' = "route"
    /\ UNCHANGED <<defaultRoute, history, argument, pathname, calls,
                   evaluated, pushed, threw>>

\* navigate(pathname)
Navigate(path) ==
    /\ Len(history) < MaxHistory
    /\ LET p   == DefaultPathname(path, defaultRoute)
           res == RouteLoop(routes, p, 0)
       IN  /\ pathname' = p
           /\ calls' = res.calls
           /\ evaluated' = res.evaluated
           /\ threw' = res.threw
           /\ pushed' = Redirect(res, defaultRoute)
           /\ history' = history \o Redirect(res, defaultRoute)
    /\ argument' = path
    /\ lastOp' = "navigate"
    /\ UNCHANGED <<routes, defaultRoute>>

Next ==
    \/ \E r \in RouteInputs : Route(r.pattern, r.handler)
    \/ \E path \in Paths : Navigate(path)

Spec == Init /\ [][Next]_vars

----------------------------------------------------------------------------
\* What the properties are stated with

Min(S) == CHOOSE a \in S : \A b \in S : a <= b
Max(S) == CHOOSE a \in S : \A b \in S : b <= a

Indices == 0..(Len(routes) - 1)
IsStringRoute(i) == routes[i + 1].pattern.type = "string"
RouteParts(i) == Split(routes[i + 1].pattern.value)
HashParts == Split(pathname)

\* the last navigate call invoked the handler of route i
Invoked(i) == \E c \in 1..Len(calls) : calls[c].route = i
\* the last navigate call got as far as route i
WasEvaluated(i) == \E c \in 1..Len(evaluated) : evaluated[c] = i

\* the index of the first * segment, the number of segments when there is none
StarIndex(parts) ==
    LET stars == {j \in 0..(Len(parts) - 1) : parts[j + 1] = <<"*">>}
    IN  IF stars = {} THEN Len(parts) ELSE Min(stars)

\* segment j of the pattern passes its check against segment j of the path:
\* a parameter always, a literal when both are equal after case folding
SegmentPasses(parts, segs, j) ==
    \/ IsParam(parts[j + 1])
    \/ /\ j < Len(segs)
       /\ ToLowerCase(parts[j + 1]) = ToLowerCase(segs[j + 1])

\* the indices of the parameter segments before index k
ParamIndices(parts, k) == {j \in 0..(k - 1) : IsParam(parts[j + 1])}

\* the mapping that binds each parameter name before index k to the path
\* segment at the last index that carries the name
LastBindings(parts, segs, k) ==
    { <<PartName(parts[j + 1]),
        segs[Max({m \in ParamIndices(parts, k) : parts[m + 1] = parts[j + 1]}) + 1]>> :
      j \in ParamIndices(parts, k) }

\* route i of rs takes the path
Accepts(rs, path, i) ==
    LET pattern == rs[i + 1].pattern
        parts   == Split(pattern.value)
        segs    == Split(path)
        k       == StarIndex(parts)
    IN  IF pattern.type = "string"
        THEN \/ k = 0
             \/ /\ Len(parts) = Len(segs)
                /\ \A j \in 0..(k - 1) : SegmentPasses(parts, segs, j)
        ELSE Matches(Substring(path, 1, Len(path)), pattern.value)

Matching == {i \in Indices : Accepts(routes, pathname, i)}

\* the paths navigate replaces by the default route
EmptyPaths == {Undefined, <<>>, <<"/">>}

----------------------------------------------------------------------------
\* C1: a string pattern whose final segment is * takes every path whose
\* segments before the wildcard pass their literal or parameter checks,
\* however many segments the path has from the wildcard's index on: once
\* navigate reaches such a route its handler is invoked.
C1_WildcardAnyLength ==
    lastOp = "navigate" =>
        \A i \in Indices :
            LET parts == RouteParts(i)
            IN  ( /\ IsStringRoute(i)
                  /\ WasEvaluated(i)
                  /\ StarIndex(parts) = Len(parts) - 1
                  /\ Len(HashParts) >= Len(parts)
                  /\ \A j \in 0..(Len(parts) - 2) :
                         SegmentPasses(parts, HashParts, j) )
                => Invoked(i)

\* C2: first match wins. One navigate call invokes at most one handler; when
\* some route takes the path it is the handler of the lowest-index such route,
\* and the routes looked at are exactly those up to it.
C2_FirstMatchWins ==
    lastOp = "navigate" =>
        /\ Len(calls) <= 1
        /\ IF Matching = {}
           THEN /\ calls = <<>>
                /\ evaluated = [c \in 1..Len(routes) |-> c - 1]
           ELSE /\ Len(calls) = 1
                /\ calls[1].route = Min(Matching)
                /\ calls[1].handler = routes[Min(Matching) + 1].handler
                /\ evaluated = [c \in 1..(Min(Matching) + 1) |-> c - 1]

\* two routes with different handlers take the path, and one handler ran
C2_Witness ==
    /\ lastOp = "navigate"
    /\ Len(calls) = 1
    /\ \E i \in Matching, j \in Matching :
           i < j /\ routes[i + 1].handler # routes[j + 1].handler

\* a string route without * and with as many segments as the path, whose
\* literal segments equal the path's after case folding, reached by navigate
C3_Case(i) ==
    LET parts == RouteParts(i)
    IN  /\ IsStringRoute(i)
        /\ WasEvaluated(i)
        /\ StarIndex(parts) = Len(parts)
        /\ Len(parts) = Len(HashParts)
        /\ \A j \in 0..(Len(parts) - 1) :
               ~IsParam(parts[j + 1]) =>
                   ToLowerCase(parts[j + 1]) = ToLowerCase(HashParts[j + 1])

\* C3 as stated: in that case the handler is invoked with a mapping that
\* binds the name of every :name segment to the path segment at the same index.
C3_EverySegmentBound ==
    lastOp = "navigate" =>
        \A i \in Indices :
            C3_Case(i) =>
                /\ Invoked(i)
                /\ ~calls[1].arg.isHash
                /\ \A j \in ParamIndices(RouteParts(i), Len(RouteParts(i))) :
                       <<PartName(RouteParts(i)[j + 1]), HashParts[j + 1]>>
                           \in calls[1].arg.params

\* C3 amended: in that case the handler is invoked with the mapping that binds
\* each parameter name to the path segment at the last index carrying the name.
C3_LastSegmentBound ==
    lastOp = "navigate" =>
        \A i \in Indices :
            C3_Case(i) =>
                /\ Invoked(i)
                /\ calls[1].arg =
                       [isHash |-> FALSE, hash |-> <<>>,
                        params |-> LastBindings(RouteParts(i), HashParts,
                                                Len(RouteParts(i)))]

\* such a route was invoked with a parameter, one of its literal segments
\* differing from the path's in case only
C3_Witness ==
    /\ lastOp = "navigate"
    /\ \E i \in Indices :
           /\ C3_Case(i)
           /\ Invoked(i)
           /\ calls[1].arg.params # {}
           /\ \E j \in 0..(Len(RouteParts(i)) - 1) :
                  /\ ~IsParam(RouteParts(i)[j + 1])
                  /\ RouteParts(i)[j + 1] # HashParts[j + 1]

\* C4: a string pattern without * whose number of segments differs from the
\* path's is not taken: its handler is not invoked.
C4_LengthMismatchNoMatch ==
    lastOp = "navigate" =>
        \A i \in Indices :
            ( /\ IsStringRoute(i)
              /\ StarIndex(RouteParts(i)) = Len(RouteParts(i))
              /\ Len(RouteParts(i)) # Len(HashParts) )
            => ~Invoked(i)

\* navigate looked at such a route, all of whose segments pass their checks
\* against the path: only the number of segments tells them apart
C4_Witness ==
    /\ lastOp = "navigate"
    /\ \E i \in Indices :
           /\ IsStringRoute(i)
           /\ WasEvaluated(i)
           /\ StarIndex(RouteParts(i)) = Len(RouteParts(i))
           /\ Len(RouteParts(i)) < Len(HashParts)
           /\ \A j \in 0..(Len(RouteParts(i)) - 1) :
                  SegmentPasses(RouteParts(i), HashParts, j)
           /\ ~Invoked(i)

\* C5: navigate called with a missing or empty path, or with /, does what
\* navigate called with the default route does: of two successive calls on
\* the same route list, one with such a path and one with the default route,
\* both invoke the same handler with the same argument or none, and both
\* redirect or neither does.
C5_EmptyPathIsDefault ==
    [][ ( /\ lastOp = "navigate"
          /\ lastOp' = "navigate"
          /\ \/ argument \in EmptyPaths /\ argument' = defaultRoute
             \/ argument = defaultRoute /\ argument' \in EmptyPaths )
        => /\ calls' = calls
           /\ pushed' = pushed
           /\ threw' = threw ]_vars

\* navigate called with a missing or empty path or with / invoked a handler,
\* the default route being another path than /
C5_Witness ==
    /\ lastOp = "navigate"
    /\ argument \in EmptyPaths
    /\ defaultRoute # <<"/">>
    /\ calls # <<>>

\* the path with its leading separator stripped and otherwise unchanged
StripLeadingSeparator(path) ==
    IF path # <<>> /\ Head(path) = "/" THEN Tail(path) ELSE path

\* the path without its first character
DropFirstCharacter(path) == Substring(path, 1, Len(path))

\* a regular-expression route reached by navigate is taken exactly when the
\* expression matches subject, and its handler then gets {hash: subject
\* split on /} and no named parameter
RegExpRoutesTest(subject) ==
    \A i \in Indices :
        (~IsStringRoute(i) /\ WasEvaluated(i)) =>
            IF Matches(subject, routes[i + 1].pattern.value)
            THEN /\ Invoked(i)
                 /\ calls[1].arg =
                        [isHash |-> TRUE, params |-> {}, hash |-> Split(subject)]
            ELSE ~Invoked(i)

\* C6 as stated: the string tested against a regular-expression pattern is
\* the path with its leading separator / stripped and otherwise unchanged.
C6_LeadingSeparatorStripped ==
    lastOp = "navigate" => RegExpRoutesTest(StripLeadingSeparator(pathname))

\* C6 amended: the string tested is the path without its first character,
\* which is the leading separator of a path that starts with /.
C6_FirstCharacterDropped ==
    lastOp = "navigate" => RegExpRoutesTest(DropFirstCharacter(pathname))

\* a regular-expression route was invoked for a path of several segments
C6_Witness ==
    /\ lastOp = "navigate"
    /\ Len(calls) = 1
    /\ ~IsStringRoute(calls[1].route)
    /\ Len(calls[1].arg.hash) > 1

\* C7: navigate raises no error, and invokes no handler when no route takes
\* the path, also when the pattern has more segments than the path.
C7_NoMatchNoError ==
    lastOp = "navigate" =>
        /\ threw = FALSE
        /\ Matching = {} => calls = <<>>

\* no handler ran, and navigate compared a literal pattern segment with a
\* path segment that is missing
C7_Witness ==
    /\ lastOp = "navigate"
    /\ calls = <<>>
    /\ threw = FALSE
    /\ \E i \in Indices :
           /\ IsStringRoute(i)
           /\ WasEvaluated(i)
           /\ \E j \in 0..(Len(RouteParts(i)) - 1) :
                  /\ j < StarIndex(RouteParts(i))
                  /\ j >= Len(HashParts)
                  /\ ~IsParam(RouteParts(i)[j + 1])

\* C8: a string pattern with a * segment, once reached, is taken exactly when
\* the checks made before the first * all passed: the literal checks and the
\* segment-count check made on each segment before it. The segments at and
\* after the * are not looked at, and a pattern starting with * takes every
\* path.
C8_WildcardGatedByPrefix ==
    lastOp = "navigate" =>
        \A i \in Indices :
            LET parts == RouteParts(i)
                k     == StarIndex(parts)
            IN  (IsStringRoute(i) /\ WasEvaluated(i) /\ k < Len(parts)) =>
                    ( Invoked(i) <=>
                          \A j \in 0..(k - 1) :
                              /\ Len(parts) = Len(HashParts)
                              /\ SegmentPasses(parts, HashParts, j) )

\* a pattern with segments on both sides of its * was taken although the
\* segment after the * differs from the path's
C8_Witness ==
    /\ lastOp = "navigate"
    /\ \E i \in Indices :
           LET parts == RouteParts(i)
               k     == StarIndex(parts)
           IN  /\ IsStringRoute(i)
               /\ Invoked(i)
               /\ 0 < k
               /\ k + 1 < Len(parts)
               /\ ToLowerCase(parts[k + 2]) # ToLowerCase(HashParts[k + 2])

\* the names of the parameter segments of route i before its first *
ParamNames(i) ==
    { PartName(RouteParts(i)[j + 1]) :
        j \in ParamIndices(RouteParts(i), StarIndex(RouteParts(i))) }

\* C9 as stated: the mapping a string route's handler gets has as keys exactly
\* the names of the parameter segments before the first *, each bound to the
\* path segment at the same index.
C9_ParamsOfMatchedRouteOnly ==
    lastOp = "navigate" =>
        \A c \in 1..Len(calls) :
            LET i == calls[c].route
            IN  IsStringRoute(i) =>
                    /\ {kv[1] : kv \in calls[c].arg.params} = ParamNames(i)
                    /\ \A j \in ParamIndices(RouteParts(i),
                                             StarIndex(RouteParts(i))) :
                           <<PartName(RouteParts(i)[j + 1]), HashParts[j + 1]>>
                               \in calls[c].arg.params

\* C9 amended: the mapping has as keys exactly those names, each bound to the
\* path segment at the last index carrying the name, and nothing an earlier
\* route bound.
C9_ParamsOfMatchedRouteLastWins ==
    lastOp = "navigate" =>
        \A c \in 1..Len(calls) :
            LET i == calls[c].route
            IN  IsStringRoute(i) =>
                    calls[c].arg.params =
                        LastBindings(RouteParts(i), HashParts,
                                     StarIndex(RouteParts(i)))

\* a handler got parameters after an earlier route, not taken, had bound a
\* name the matched pattern does not have
C9_Witness ==
    /\ lastOp = "navigate"
    /\ Len(calls) = 1
    /\ IsStringRoute(calls[1].route)
    /\ calls[1].arg.params # {}
    /\ \E e \in 0..(calls[1].route - 1) :
           /\ IsStringRoute(e)
           /\ Len(RouteParts(e)) = Len(HashParts)
           /\ ParamNames(e) \ ParamNames(calls[1].route) # {}

====
